---- MODULE Spec2Model ----
(***************************************************************************)
(* Tag registry and node-tag synchronisation of the FigJam Tagger.         *)
(*                                                                         *)
(* Three programs of the repository share the host (a canvas with          *)
(* per-document and per-node plugin data, a selection, and a message       *)
(* channel in each direction):                                             *)
(*   SpecPlugin  the sandbox controller (code.ts of the plugin) with the   *)
(*               PluginApp view, CompactTagManager and SelectionTagger;    *)
(*   SpecMVP     the single-file MVP plugin (code.ts and ui.ts);           *)
(*   SpecMVPDirect  the MVP with its Controller receiving messages that    *)
(*               ui.ts never builds;                                       *)
(*   SpecSim     the FigJamSimulator component of the web application.     *)
(* Variants of SpecPlugin:                                                 *)
(*   SpecPluginLive     with the fairness of message delivery and of the   *)
(*               Controller's handlers;                                    *)
(*   SpecPluginApi      with PluginStorageManager.getTagRegistry() called; *)
(*   SpecPluginCorrupt  on a document whose stored texts may not be JSON.  *)
(*   SpecCsv     the CSV exports of the plugin and of the MVP.             *)
(***************************************************************************)
EXTENDS Integers, Sequences, FiniteSets, TLC

(* ------------------------------ bounds --------------------------------- *)

\* User actions (View events and canvas edits) in one behaviour.
MaxEvents == 2

\* Messages in flight in one direction.
MaxQueue == 2

(* ------------------------------ values --------------------------------- *)

TagNames == {"a", "b", "c"}

\* Array.prototype.sort() on tag names: order by UTF-16 code unit.
TagRank(t) == CASE t = "a" -> 1 [] t = "b" -> 2 [] t = "c" -> 3

NodeIds == {"n1", "n2"}

\* Traversal order of the page (figma.currentPage.children, findAll).
PageOrder == <<"n1", "n2">>

\* A key a JavaScript object does not have.
Undefined == "undefined"

\* TagMeta { color?: string; emoji?: string }
Meta(c, e) == [color |-> c, emoji |-> e]

EmptyMeta == Meta(Undefined, Undefined)

\* { ...a, ...b }: every key b has replaces a's.
Spread(a, b) ==
  [k \in {"color", "emoji"} |-> IF b[k] # Undefined THEN b[k] ELSE a[k]]

\* TagRegistry: {} and the two object updates the code uses.
EmptyRegistry == [t \in {} |-> EmptyMeta]

RegSet(reg, t, m) ==
  [x \in (DOMAIN reg) \cup {t} |-> IF x = t THEN m ELSE reg[x]]

RegDelete(reg, t) == [x \in (DOMAIN reg) \ {t} |-> reg[x]]

(* ------------------------------ arrays --------------------------------- *)

\* Array.prototype.includes
Includes(s, x) == \E i \in 1..Len(s) : s[i] = x

\* [...new Set(s)]: first occurrences, in order.
Dedup(s) ==
  LET F[i \in 0..Len(s)] ==
        IF i = 0 THEN <<>>
        ELSE IF Includes(F[i - 1], s[i]) THEN F[i - 1]
             ELSE Append(F[i - 1], s[i])
  IN F[Len(s)]

InsertSorted(sorted, x) ==
  LET k == Cardinality({i \in 1..Len(sorted) : TagRank(sorted[i]) <= TagRank(x)})
  IN SubSeq(sorted, 1, k) \o <<x>> \o SubSeq(sorted, k + 1, Len(sorted))

\* Array.prototype.sort() with the default comparison.
Sort(s) ==
  LET F[i \in 0..Len(s)] ==
        IF i = 0 THEN <<>> ELSE InsertSorted(F[i - 1], s[i])
  IN F[Len(s)]

\* s.filter(t => !drop.includes(t))
Without(s, drop) == SelectSeq(s, LAMBDA t : ~Includes(drop, t))

\* s.map(t => (t === from ? to : t))
Replace(s, from, to) == [i \in 1..Len(s) |-> IF s[i] = from THEN to ELSE s[i]]

\* Occurrences of x in s.
Count(s, x) == Cardinality({i \in 1..Len(s) : s[i] = x})

\* Sorted ascending, no duplicates.
IsNormalized(s) == \A i \in 1..(Len(s) - 1) : TagRank(s[i]) < TagRank(s[i + 1])

\* The ids of `ids` in page order.
InPageOrder(ids) == SelectSeq(PageOrder, LAMBDA n : n \in ids)

(* ---------------------------- plugin data ------------------------------ *)

\* A stored blob is a text, written here as a sequence of its parts.
\* getPluginData of a key never written returns the empty string.
NoData == <<>>

\* JSON.stringify of an array of strings: the elements between brackets.
JSONstringify(v) == <<"[">> \o v \o <<"]">>

\* JSON.parse of the text of an array.
JSONparse(text) == SubSeq(text, 2, Len(text) - 1)

\* A TagMeta text that leaves out every falsy field, the empty string too.
MetaTextTruthy(m) ==
  (IF m.color \notin {Undefined, ""} THEN << <<"color", m.color>> >> ELSE <<>>) \o
  (IF m.emoji \notin {Undefined, ""} THEN << <<"emoji", m.emoji>> >> ELSE <<>>)

\* JSON.stringify of a TagMeta: the fields that are not undefined.
MetaText(m) ==
  (IF m.color # Undefined THEN << <<"color", m.color>> >> ELSE <<>>) \o
  (IF m.emoji # Undefined THEN << <<"emoji", m.emoji>> >> ELSE <<>>)

\* The value of a field in the text of a TagMeta; undefined when absent.
MetaField(mt, name) ==
  IF \E i \in 1..Len(mt) : mt[i][1] = name
  THEN mt[CHOOSE i \in 1..Len(mt) : mt[i][1] = name][2]
  ELSE Undefined

\* The keys a registry can have, in the order the text lists them.
KeyOrder == <<"a", "b", "c", Undefined>>

\* JSON.stringify of a registry: one key and TagMeta text per entry, in braces.
JSONstringifyRegistry(reg) ==
  LET keys == SelectSeq(KeyOrder, LAMBDA k : k \in DOMAIN reg) IN
  <<"{">> \o [i \in 1..Len(keys) |-> <<keys[i], MetaText(reg[keys[i]])>>] \o <<"}">>

\* JSON.parse of the text of a registry.
JSONparseRegistry(text) ==
  LET entries == SubSeq(text, 2, Len(text) - 1) IN
  [k \in {entries[i][1] : i \in 1..Len(entries)} |->
     LET entry == entries[CHOOSE i \in 1..Len(entries) : entries[i][1] = k]
     IN Meta(MetaField(entry[2], "color"), MetaField(entry[2], "emoji"))]

\* JSON.parse accepts the text: it opens and closes as an array or an object.
IsJSON(text) ==
  /\ Len(text) >= 2
  /\ \/ text[1] = "[" /\ text[Len(text)] = "]"
     \/ text[1] = "{" /\ text[Len(text)] = "}"

\* A stored text that JSON.parse rejects.
Garbage == <<"oops">>

(* ------------------------------- state --------------------------------- *)

VARIABLES
  rootPluginData,   \* figma.root plugin data: the registry blob
  nodePluginData,   \* node id -> the node's tag blob
  canvas,           \* nodes figma.getNodeById finds
  selection,        \* figma.currentPage.selection, as ids
  toCtl,            \* View -> Controller messages in flight (FIFO)
  toView,           \* Controller -> View messages in flight (FIFO)
  mounted,          \* the View has registered its message listeners
  tagRegistry,      \* View: cached registry (useState)
  nodes,            \* View: cached index, id -> tags (useState)
  selectedNodeIds,  \* View: mirrored selection (useState)
  isConnected,      \* View: initial-data was received
  registry,         \* MVP ui.ts: cached registry
  notified,         \* last figma.notify count, -1 before any
  handled,          \* the message the Controller handled last
  events,           \* user actions so far (View events, canvas edits)
  nodeNames,        \* node id -> the node's name, as characters
  csv,              \* the last CSV export, a sequence of lines
  messageCallbacks  \* PluginStorageManager.messageCallbacks: key -> handler

vars ==
  <<rootPluginData, nodePluginData, canvas, selection, toCtl, toView, mounted,
    tagRegistry, nodes, selectedNodeIds, isConnected, registry, notified,
    handled, events, nodeNames, csv, messageCallbacks>>

hostVars == <<rootPluginData, nodePluginData, canvas, selection>>

viewVars == <<tagRegistry, nodes, selectedNodeIds, isConnected>>

auxVars == <<nodeNames, csv, messageCallbacks>>

\* messageCallbacks before any onMessage call, and after PluginApp's four.
NoCallbacks == [k \in {} |-> "none"]

AppCallbacks ==
  [k \in {"initial-data", "selection-changed", "tag-registry", "node-updated"} |->
     "app"]

\* Node names without a double quote; no export yet; no callback registered.
PlainNames == [n \in NodeIds |-> <<"N">>]

InitAux ==
  /\ nodeNames = PlainNames
  /\ csv = <<>>
  /\ messageCallbacks = NoCallbacks

NoMessage == [type |-> "none"]

EmptyNodes == [n \in {} |-> <<>>]

\* Documents the plugin is opened on: stored tag lists are normalized.
InitRegistries ==
  { EmptyRegistry,
    [t \in {"a", "b"} |-> IF t = "a" THEN Meta("c1", "e1") ELSE Meta("c2", Undefined)] }

InitNodeTags ==
  { [n \in NodeIds |-> IF n = "n1" THEN <<"b">> ELSE <<>>],
    [n \in NodeIds |-> IF n = "n1" THEN <<"a", "b">> ELSE <<"a">>] }

InitHost ==
  /\ \E r \in InitRegistries :
       rootPluginData = IF r = EmptyRegistry THEN NoData ELSE JSONstringifyRegistry(r)
  /\ \E f \in InitNodeTags :
       nodePluginData =
         [n \in NodeIds |-> IF f[n] = <<>> THEN NoData ELSE JSONstringify(f[n])]
  /\ canvas = NodeIds
  /\ selection \in {<<>>, <<"n1">>}

(* ======================= plugin: sandbox controller ===================== *)

getTagRegistry ==
  IF rootPluginData # NoData THEN JSONparseRegistry(rootPluginData)
  ELSE EmptyRegistry

getNodeTags(id) ==
  IF nodePluginData[id] # NoData THEN JSONparse(nodePluginData[id]) ELSE <<>>

\* getNodeData: id and tags (name and type do not change).
getNodeData(id) == [id |-> id, tags |-> getNodeTags(id)]

getAllTaggedNodes ==
  [id \in {n \in canvas : Len(getNodeTags(n)) > 0} |-> getNodeTags(id)]

\* JSON.parse throws in getTagRegistry or in getNodeTags of a node on the page:
\* neither catches.
ReadThrows ==
  \/ rootPluginData # NoData /\ ~IsJSON(rootPluginData)
  \/ \E n \in canvas : nodePluginData[n] # NoData /\ ~IsJSON(nodePluginData[n])

InitialDataMessage ==
  [selection |-> selection, tagRegistry |-> getTagRegistry,
   nodes |-> getAllTaggedNodes, type |-> "initial-data"]

CanPost(n) == Len(toView) + n <= MaxQueue

Receive(type) == toCtl # <<>> /\ Head(toCtl).type = type

\* A get-initial-data handler that consumes the request and answers nothing.
handleGetInitialDataSilent ==
  /\ Receive("get-initial-data")
  /\ toCtl' = Tail(toCtl)
  /\ UNCHANGED <<hostVars, toView, viewVars, mounted, registry, notified,
                 handled, events, auxVars>>

\* With a stored text JSON.parse rejects the handler ends in the exception,
\* before its postMessage.
handleGetInitialData ==
  /\ Receive("get-initial-data")
  /\ IF ReadThrows
     THEN toView' = toView
     ELSE /\ CanPost(1)
          /\ toView' = Append(toView, InitialDataMessage)
  /\ toCtl' = Tail(toCtl)
  /\ UNCHANGED <<hostVars, viewVars, mounted, registry, notified, handled, events, auxVars>>

\* handleSetNodeTags without the lookup of the node: stores and reports for
\* every id it is given.
handleSetNodeTagsAnyNode ==
  /\ Receive("set-node-tags")
  /\ CanPost(1)
  /\ LET msg == Head(toCtl) IN
       /\ nodePluginData' =
            [nodePluginData EXCEPT ![msg.nodeId] = JSONstringify(msg.tags)]
       /\ toView' = Append(toView,
            [type |-> "node-updated",
             node |-> [id |-> msg.nodeId,
                       tags |-> JSONparse(nodePluginData'[msg.nodeId])]])
  /\ toCtl' = Tail(toCtl)
  /\ UNCHANGED <<rootPluginData, canvas, selection, viewVars, mounted,
                 registry, notified, handled, events, auxVars>>

handleSetNodeTags ==
  /\ Receive("set-node-tags")
  /\ LET msg == Head(toCtl) IN
       IF msg.nodeId \notin canvas
       THEN UNCHANGED <<nodePluginData, toView>>
       ELSE /\ CanPost(1)
            /\ nodePluginData' =
                 [nodePluginData EXCEPT ![msg.nodeId] = JSONstringify(msg.tags)]
            /\ toView' = Append(toView,
                 [type |-> "node-updated",
                  node |-> [id |-> msg.nodeId,
                            tags |-> JSONparse(nodePluginData'[msg.nodeId])]])
  /\ toCtl' = Tail(toCtl)
  /\ UNCHANGED <<rootPluginData, canvas, selection, viewVars, mounted,
                 registry, notified, handled, events, auxVars>>

\* handleSetTagRegistry posting the snapshot without the setPluginData before it.
handleSetTagRegistryUnsaved ==
  /\ Receive("set-tag-registry")
  /\ CanPost(1)
  /\ toView' = Append(toView,
       [registry |-> Head(toCtl).registry, type |-> "tag-registry-updated"])
  /\ toCtl' = Tail(toCtl)
  /\ UNCHANGED <<hostVars, viewVars, mounted, registry, notified, handled, events, auxVars>>

handleSetTagRegistry ==
  /\ Receive("set-tag-registry")
  /\ CanPost(1)
  /\ rootPluginData' = JSONstringifyRegistry(Head(toCtl).registry)
  /\ toView' = Append(toView,
       [registry |-> Head(toCtl).registry, type |-> "tag-registry-updated"])
  /\ toCtl' = Tail(toCtl)
  /\ UNCHANGED <<nodePluginData, canvas, selection, viewVars, mounted,
                 registry, notified, handled, events, auxVars>>

\* A selection change the Controller does not report.
SelectionChangeUnreported ==
  /\ events < MaxEvents
  /\ \E ids \in SUBSET canvas :
       /\ InPageOrder(ids) # selection
       /\ selection' = InPageOrder(ids)
  /\ events' = events + 1
  /\ UNCHANGED auxVars
  /\ UNCHANGED <<rootPluginData, nodePluginData, canvas, toCtl, toView, viewVars,
                 mounted, registry, notified, handled>>

\* figma.on('selectionchange'): the user changes the selection on the canvas.
SelectionChange ==
  /\ events < MaxEvents
  /\ CanPost(1)
  /\ \E ids \in SUBSET canvas :
       /\ InPageOrder(ids) # selection
       /\ selection' = InPageOrder(ids)
       /\ toView' = Append(toView,
            [selection |-> InPageOrder(ids), type |-> "selection-changed"])
  /\ events' = events + 1
  /\ UNCHANGED auxVars
  /\ UNCHANGED <<rootPluginData, nodePluginData, canvas, toCtl, viewVars,
                 mounted, registry, notified, handled>>

\* The user deletes a node from the canvas; the selection loses it.
RemoveNode ==
  /\ events < MaxEvents
  /\ CanPost(1)
  /\ \E n \in canvas :
       /\ canvas' = canvas \ {n}
       /\ selection' = SelectSeq(selection, LAMBDA x : x # n)
       /\ toView' = IF Includes(selection, n)
                    THEN Append(toView, [selection |-> selection',
                                         type |-> "selection-changed"])
                    ELSE toView
  /\ events' = events + 1
  /\ UNCHANGED auxVars
  /\ UNCHANGED <<rootPluginData, nodePluginData, toCtl, viewVars, mounted,
                 registry, notified, handled>>

(* ============================ plugin: view ============================== *)

\* PluginApp's useEffect: initialize(), the four onMessage registrations, and
\* the get-initial-data request.
ViewMount ==
  /\ ~mounted
  /\ mounted' = TRUE
  /\ messageCallbacks' = AppCallbacks
  /\ toCtl' = Append(toCtl, [type |-> "get-initial-data"])
  /\ UNCHANGED <<hostVars, toView, viewVars, registry, notified, handled, events,
                 nodeNames, csv>>

\* A message that arrives before window.pluginAPI.onMessage has a callback
\* reaches no handler.
DeliverBeforeListener ==
  /\ ~mounted
  /\ toView # <<>>
  /\ toView' = Tail(toView)
  /\ UNCHANGED <<hostVars, toCtl, mounted, viewVars, registry, notified,
                 handled, events, auxVars>>

Deliver(types) == mounted /\ toView # <<>> /\ Head(toView).type \in types

OnInitialData ==
  /\ Deliver({"initial-data"})
  /\ tagRegistry' = Head(toView).tagRegistry
  /\ nodes' = Head(toView).nodes
  /\ selectedNodeIds' = Head(toView).selection
  /\ isConnected' = TRUE
  /\ toView' = Tail(toView)
  /\ UNCHANGED <<hostVars, toCtl, mounted, registry, notified, handled, events, auxVars>>

OnSelectionChanged ==
  /\ Deliver({"selection-changed"})
  /\ selectedNodeIds' = Head(toView).selection
  /\ toView' = Tail(toView)
  /\ UNCHANGED <<hostVars, toCtl, mounted, tagRegistry, nodes, isConnected,
                 registry, notified, handled, events, auxVars>>

\* Both message types are dispatched to messageCallbacks['tag-registry']: the
\* app's handler stores the registry, a promise's resolve stores nothing.
OnTagRegistry ==
  /\ Deliver({"tag-registry", "tag-registry-updated"})
  /\ tagRegistry' = IF messageCallbacks["tag-registry"] = "app"
                    THEN Head(toView).registry
                    ELSE tagRegistry
  /\ toView' = Tail(toView)
  /\ UNCHANGED <<hostVars, toCtl, mounted, nodes, selectedNodeIds, isConnected,
                 registry, notified, handled, events, auxVars>>

\* setNodes(prev => ({ ...prev, [node.id]: node }))
OnNodeUpdated ==
  /\ Deliver({"node-updated"})
  /\ LET node == Head(toView).node IN
       nodes' = [id \in (DOMAIN nodes) \cup {node.id} |->
                   IF id = node.id THEN node.tags ELSE nodes[id]]
  /\ toView' = Tail(toView)
  /\ UNCHANGED <<hostVars, toCtl, mounted, tagRegistry, selectedNodeIds,
                 isConnected, registry, notified, handled, events, auxVars>>

\* A View handler runs: the listeners exist and the budget allows it.
CanIssue(msgs) ==
  /\ mounted
  /\ events < MaxEvents
  /\ Len(toCtl) + Len(msgs) <= MaxQueue

\* handleTagRegistryChange.  The field `intent` records which View operation
\* computed the registry; the code sends type and registry only.
handleTagRegistryChange(newRegistry, intent) ==
  /\ CanIssue(<<1>>)
  /\ tagRegistry' = newRegistry
  /\ toCtl' = Append(toCtl, [registry |-> newRegistry,
                             type |-> "set-tag-registry", intent |-> intent])
  /\ events' = events + 1
  /\ UNCHANGED auxVars
  /\ UNCHANGED <<hostVars, toView, mounted, nodes, selectedNodeIds, isConnected,
                 registry, notified, handled>>

\* The metadata handleAddTag builds: emoji when typed, color when not the default.
AddTagMetas == {Meta(Undefined, Undefined), Meta("c2", "e1")}

CompactAddTag(trimmedTag, meta) ==
  /\ trimmedTag \notin DOMAIN tagRegistry
  /\ handleTagRegistryChange(RegSet(tagRegistry, trimmedTag, meta),
                             [tags |-> {trimmedTag}, op |-> "create"])

CompactDeleteTag(tag) ==
  /\ tag \in DOMAIN tagRegistry
  /\ handleTagRegistryChange(RegDelete(tagRegistry, tag),
                             [tags |-> {tag}, op |-> "delete"])

CompactRenameTag(tag, trimmedNewName) ==
  /\ tag \in DOMAIN tagRegistry
  /\ trimmedNewName # tag
  /\ trimmedNewName \notin DOMAIN tagRegistry
  /\ handleTagRegistryChange(
       RegDelete(RegSet(tagRegistry, trimmedNewName, tagRegistry[tag]), tag),
       [tags |-> {tag, trimmedNewName}, op |-> "rename"])

\* The set-node-tags messages handleNodesChange posts, in Object.values order.
ChangedIds(newNodes) ==
  SelectSeq(PageOrder, LAMBDA id :
    /\ id \in DOMAIN newNodes
    /\ (id \notin DOMAIN nodes \/ nodes[id] # newNodes[id]))

SetNodeTagsMessages(ids, newNodes) ==
  [i \in 1..Len(ids) |->
     [type |-> "set-node-tags", tags |-> newNodes[ids[i]], nodeId |-> ids[i]]]

handleNodesChange(newNodes) ==
  LET msgs == SetNodeTagsMessages(ChangedIds(newNodes), newNodes) IN
  /\ CanIssue(msgs)
  /\ toCtl' = toCtl \o msgs
  /\ nodes' = newNodes
  /\ events' = events + 1
  /\ UNCHANGED auxVars
  /\ UNCHANGED <<hostVars, toView, mounted, tagRegistry, selectedNodeIds,
                 isConnected, registry, handled>>

\* What the user types into the tag input, split on commas.
InputTagLists == {<<"a">>, <<"c">>, <<"b", "a">>, <<"a", "a">>, <<"b", "c">>}

\* An add that replaces the tag list instead of uniting with it.
BulkNewNodesReplacing(mode, tags) ==
  [id \in DOMAIN nodes |->
     IF ~Includes(selectedNodeIds, id) THEN nodes[id]
     ELSE IF mode = "add" THEN Dedup(tags)
     ELSE Without(nodes[id], tags)]

\* SelectionTagger.handleBulkTagOperation's newNodes.
BulkNewNodes(mode, tags) ==
  [id \in DOMAIN nodes |->
     IF ~Includes(selectedNodeIds, id) THEN nodes[id]
     ELSE IF mode = "add" THEN Dedup(nodes[id] \o tags)
     ELSE Without(nodes[id], tags)]

\* updatedCount, shown in the toast: the selected ids the index has.
BulkUpdatedCount ==
  Len(SelectSeq(selectedNodeIds, LAMBDA id : id \in DOMAIN nodes))

handleBulkTagOperation(mode, tags) ==
  /\ Len(selectedNodeIds) # 0
  /\ Len(tags) # 0
  /\ handleNodesChange(BulkNewNodes(mode, tags))
  /\ notified' = BulkUpdatedCount

\* SelectionTagger.handleQuickTag's newNodes.
QuickNewNodes(mode, tag) ==
  [id \in DOMAIN nodes |->
     IF ~Includes(selectedNodeIds, id) THEN nodes[id]
     ELSE IF mode = "add" /\ ~Includes(nodes[id], tag) THEN Append(nodes[id], tag)
     ELSE IF mode = "remove" /\ Includes(nodes[id], tag)
          THEN Without(nodes[id], <<tag>>)
     ELSE nodes[id]]

\* updatedCount of handleQuickTag: the selected nodes it rewrote.
QuickUpdatedCount(mode, tag) ==
  Len(SelectSeq(selectedNodeIds, LAMBDA id :
        /\ id \in DOMAIN nodes
        /\ (mode = "add") # Includes(nodes[id], tag)))

\* The chips offered: the registry's tags, and in remove mode the tags on the
\* selection.
handleQuickTag(mode, tag) ==
  /\ Len(selectedNodeIds) # 0
  /\ \/ tag \in DOMAIN tagRegistry
     \/ /\ mode = "remove"
        /\ \E id \in DOMAIN nodes :
             Includes(selectedNodeIds, id) /\ Includes(nodes[id], tag)
  /\ handleNodesChange(QuickNewNodes(mode, tag))
  /\ notified' = QuickUpdatedCount(mode, tag)

\* PluginApp.handleMergeTags: the nodes it rewrites and what it posts.  It is
\* handed to CompactTagManager as onMergeTags, which never calls it, so it is
\* no disjunct of NextPlugin.
MergeTouched(fromList) ==
  SelectSeq(PageOrder, LAMBDA id :
    id \in DOMAIN nodes /\ \E i \in 1..Len(fromList) : Includes(nodes[id], fromList[i]))

MergedTags(tags, into, fromList) ==
  Sort(Dedup(Append(Without(Dedup(tags), fromList), into)))

handleMergeTags(into, fromList) ==
  LET ids == MergeTouched(fromList)
      newNodes == [id \in DOMAIN nodes |->
                     IF Includes(ids, id) THEN MergedTags(nodes[id], into, fromList)
                     ELSE nodes[id]]
      msgs == SetNodeTagsMessages(ids, newNodes)
  IN /\ CanIssue(msgs)
     /\ toCtl' = toCtl \o msgs
     /\ nodes' = newNodes
     /\ events' = events + 1
     /\ UNCHANGED auxVars
     /\ UNCHANGED <<hostVars, toView, mounted, tagRegistry, selectedNodeIds,
                    isConnected, registry, notified, handled>>

InitView ==
  /\ mounted = FALSE
  /\ tagRegistry = EmptyRegistry
  /\ nodes = EmptyNodes
  /\ selectedNodeIds = <<>>
  /\ isConnected = FALSE

\* The sandbox has run to its end: showUI, the handlers registered, and with
\* the command open-tagger one initial-data already posted.
InitPlugin ==
  /\ InitHost
  /\ toCtl = <<>>
  /\ toView \in {<<>>, <<InitialDataMessage>>}
  /\ InitView
  /\ registry = EmptyRegistry
  /\ notified = -1
  /\ handled = NoMessage
  /\ events = 0
  /\ InitAux

NextPlugin ==
  \/ ViewMount
  \/ DeliverBeforeListener
  \/ OnInitialData
  \/ OnSelectionChanged
  \/ OnTagRegistry
  \/ OnNodeUpdated
  \/ \E t \in TagNames, m \in AddTagMetas : CompactAddTag(t, m)
  \/ \E t \in TagNames : CompactDeleteTag(t)
  \/ \E t \in TagNames, u \in TagNames : CompactRenameTag(t, u)
  \/ \E mode \in {"add", "remove"}, tags \in InputTagLists :
       handleBulkTagOperation(mode, tags)
  \/ \E mode \in {"add", "remove"}, t \in TagNames : handleQuickTag(mode, t)
  \/ handleGetInitialData
  \/ handleSetNodeTags
  \/ handleSetTagRegistry
  \/ SelectionChange
  \/ RemoveNode

SpecPlugin == InitPlugin /\ [][NextPlugin]_vars

\* The plugin opened on a document whose stored registry or whose tag list of
\* n1 may be a text that is not JSON.
InitPluginCorrupt ==
  /\ rootPluginData \in
       {NoData, Garbage,
        JSONstringifyRegistry([t \in {"a"} |-> Meta("c1", "e1")])}
  /\ nodePluginData \in
       {[n \in NodeIds |-> IF n = "n1" THEN blob ELSE NoData] :
          blob \in {Garbage, JSONstringify(<<"b">>)}}
  /\ canvas = NodeIds
  /\ selection \in {<<>>, <<"n1">>}
  /\ toCtl = <<>>
  /\ toView \in {<<>>} \cup (IF ReadThrows THEN {} ELSE {<<InitialDataMessage>>})
  /\ InitView
  /\ registry = EmptyRegistry
  /\ notified = -1
  /\ handled = NoMessage
  /\ events = 0
  /\ InitAux

SpecPluginCorrupt == InitPluginCorrupt /\ [][NextPlugin]_vars

\* PluginStorageManager.getTagRegistry(): registers the promise's resolve under
\* 'tag-registry' and asks the Controller for the registry.  No component
\* calls it; it is taken once here, a second call registering another resolve.
getTagRegistryCall ==
  /\ mounted
  /\ messageCallbacks["tag-registry"] = "app"
  /\ Len(toCtl) < MaxQueue
  /\ messageCallbacks' = [messageCallbacks EXCEPT !["tag-registry"] = "resolve"]
  /\ toCtl' = Append(toCtl, [type |-> "get-tag-registry"])
  /\ UNCHANGED <<hostVars, toView, mounted, viewVars, registry, notified,
                 handled, events, nodeNames, csv>>

handleGetTagRegistry ==
  /\ Receive("get-tag-registry")
  /\ IF rootPluginData # NoData /\ ~IsJSON(rootPluginData)
     THEN toView' = toView
     ELSE /\ CanPost(1)
          /\ toView' = Append(toView,
               [registry |-> getTagRegistry, type |-> "tag-registry"])
  /\ toCtl' = Tail(toCtl)
  /\ UNCHANGED <<hostVars, viewVars, mounted, registry, notified, handled,
                 events, auxVars>>

\* The plugin with PluginStorageManager's whole interface in use.
NextPluginApi ==
  \/ NextPlugin
  \/ getTagRegistryCall
  \/ handleGetTagRegistry

SpecPluginApi == InitPlugin /\ [][NextPluginApi]_vars

\* The plugin with its scheduling: the host delivers every posted message, and
\* a handler whose message is at the head of its queue runs.
SpecPluginLive ==
  /\ InitPlugin
  /\ [][NextPlugin]_vars
  /\ WF_vars(handleGetInitialData)
  /\ WF_vars(handleSetNodeTags)
  /\ WF_vars(handleSetTagRegistry)
  /\ WF_vars(DeliverBeforeListener)
  /\ WF_vars(OnInitialData)
  /\ WF_vars(OnSelectionChanged)
  /\ WF_vars(OnTagRegistry)
  /\ WF_vars(OnNodeUpdated)

(* ============================ MVP: code.ts ============================== *)

\* getRegistry: the parsed blob, {} when there is none.
getRegistry(root) ==
  IF root = NoData \/ ~IsJSON(root) THEN EmptyRegistry
  ELSE JSONparseRegistry(root)

setRegistry(reg) == JSONstringifyRegistry(reg)

\* The MVP's getNodeTags, on one node's blob.
getNodeTagsMvp(blob) ==
  IF blob = NoData \/ ~IsJSON(blob) THEN <<>> ELSE JSONparse(blob)

\* setNodeTags writes [...new Set(tags)].sort().
setNodeTags(tags) == JSONstringify(Sort(Dedup(tags)))

\* figma.currentPage.findAll(n => getNodeTags(n).includes(tag)), in page order.
findByTag(nodeData, tag) ==
  SelectSeq(PageOrder, LAMBDA n :
    n \in canvas /\ Includes(getNodeTagsMvp(nodeData[n]), tag))

ensureTagInRegistry(root, tag, meta) ==
  LET reg == getRegistry(root)
      reg1 == IF tag \notin DOMAIN reg THEN RegSet(reg, tag, EmptyMeta) ELSE reg
  IN setRegistry(RegSet(reg1, tag, Spread(reg1[tag], meta)))

\* A loop that stops after the first node.
StripFromFirstNode(nodeData, tag) ==
  LET found == findByTag(nodeData, tag) IN
  [n \in NodeIds |->
     IF found # <<>> /\ n = Head(found)
     THEN setNodeTags(Without(getNodeTagsMvp(nodeData[n]), <<tag>>))
     ELSE nodeData[n]]

\* The loop of case "delete-tag" over the nodes that hold the tag.
StripFromNodes(nodeData, tag) ==
  LET found == findByTag(nodeData, tag) IN
  [n \in NodeIds |->
     IF Includes(found, n)
     THEN setNodeTags(Without(getNodeTagsMvp(nodeData[n]), <<tag>>))
     ELSE nodeData[n]]

\* case "delete-tag": the registry and node data it leaves.
deleteTag(root, nodeData, tag) ==
  [node |-> StripFromNodes(nodeData, tag),
   root |-> setRegistry(RegDelete(getRegistry(root), tag))]

addTagsToSelection(nodeData, sel, tags) ==
  [node |-> [n \in NodeIds |->
               IF Includes(sel, n)
               THEN setNodeTags(Dedup(getNodeTagsMvp(nodeData[n]) \o tags))
               ELSE nodeData[n]],
   updated |-> Len(sel)]

\* A removal that filters out only the first of the tags.
removeFirstTagFromSelection(nodeData, sel, tags) ==
  [node |-> [n \in NodeIds |->
               IF Includes(sel, n)
               THEN setNodeTags(Without(getNodeTagsMvp(nodeData[n]), <<Head(tags)>>))
               ELSE nodeData[n]],
   updated |-> Len(sel)]

removeTagsFromSelection(nodeData, sel, tags) ==
  [node |-> [n \in NodeIds |->
               IF Includes(sel, n)
               THEN setNodeTags(Without(getNodeTagsMvp(nodeData[n]), tags))
               ELSE nodeData[n]],
   updated |-> Len(sel)]

renameTagEverywhere(root, nodeData, from, to) ==
  LET reg == getRegistry(root)
      found == findByTag(nodeData, from)
  IN [root |-> IF from \in DOMAIN reg
               THEN setRegistry(RegDelete(
                      RegSet(reg, to,
                             Spread(IF to \in DOMAIN reg THEN reg[to] ELSE EmptyMeta,
                                    reg[from])),
                      from))
               ELSE root,
      node |-> [n \in NodeIds |->
                  IF Includes(found, n)
                  THEN setNodeTags(Replace(getNodeTagsMvp(nodeData[n]), from, to))
                  ELSE nodeData[n]],
      count |-> Len(found)]

\* mergeTags' loop over fromList on the registry.
FoldRegistry(reg, into, fromList) ==
  LET F[i \in 0..Len(fromList)] ==
        IF i = 0 THEN reg
        ELSE LET r == F[i - 1]
                 f == fromList[i]
             IN IF f \in DOMAIN r
                THEN RegDelete(
                       RegSet(r, into,
                              Spread(IF into \in DOMAIN r THEN r[into] ELSE EmptyMeta,
                                     r[f])),
                       f)
                ELSE r
  IN F[Len(fromList)]

\* A merge whose node loop deletes only the first tag of fromList.
mergeTagsFirstSourceOnly(root, nodeData, into, fromList) ==
  LET found == SelectSeq(PageOrder, LAMBDA n :
                 /\ n \in canvas
                 /\ \E i \in 1..Len(fromList) :
                      Includes(getNodeTagsMvp(nodeData[n]), fromList[i]))
  IN [root |-> setRegistry(FoldRegistry(getRegistry(root), into, fromList)),
      node |-> [n \in NodeIds |->
                  IF Includes(found, n)
                  THEN setNodeTags(Append(
                         Without(Dedup(getNodeTagsMvp(nodeData[n])),
                                 <<Head(fromList)>>), into))
                  ELSE nodeData[n]],
      count |-> Len(found)]

mergeTags(root, nodeData, into, fromList) ==
  LET found == SelectSeq(PageOrder, LAMBDA n :
                 /\ n \in canvas
                 /\ \E i \in 1..Len(fromList) :
                      Includes(getNodeTagsMvp(nodeData[n]), fromList[i]))
  IN [root |-> setRegistry(FoldRegistry(getRegistry(root), into, fromList)),
      node |-> [n \in NodeIds |->
                  IF Includes(found, n)
                  THEN setNodeTags(Append(
                         Without(Dedup(getNodeTagsMvp(nodeData[n])), fromList), into))
                  ELSE nodeData[n]],
      count |-> Len(found)]

\* msg.f of a message object: undefined when the message has no such field.
Field(msg, f) == IF f \in DOMAIN msg THEN msg[f] ELSE Undefined

RegistryMessage(root) == [type |-> "registry", data |-> getRegistry(root)]

\* The frame of a figma.ui.onmessage case: the message is consumed.
Consume ==
  /\ toCtl' = Tail(toCtl)
  /\ handled' = Head(toCtl)
  /\ UNCHANGED <<canvas, mounted, viewVars, registry, events, auxVars>>

OnCreateTag ==
  /\ Receive("create-tag")
  /\ CanPost(1)
  /\ rootPluginData' =
       ensureTagInRegistry(rootPluginData, Field(Head(toCtl), "tag"),
                           Head(toCtl).meta)
  /\ toView' = Append(toView, RegistryMessage(rootPluginData'))
  /\ Consume
  /\ UNCHANGED <<nodePluginData, selection, notified>>

OnDeleteTag ==
  /\ Receive("delete-tag")
  /\ CanPost(1)
  /\ LET res == deleteTag(rootPluginData, nodePluginData,
                           Field(Head(toCtl), "tag")) IN
       /\ rootPluginData' = res.root
       /\ nodePluginData' = res.node
  /\ toView' = Append(toView, RegistryMessage(rootPluginData'))
  /\ Consume
  /\ UNCHANGED <<selection, notified>>

OnAssignTags ==
  /\ Receive("assign-tags-to-selection")
  /\ LET res == addTagsToSelection(nodePluginData, selection, Head(toCtl).tags) IN
       /\ nodePluginData' = res.node
       /\ notified' = res.updated
  /\ Consume
  /\ UNCHANGED <<rootPluginData, selection, toView>>

OnRemoveTags ==
  /\ Receive("remove-tags-from-selection")
  /\ LET res == removeTagsFromSelection(nodePluginData, selection, Head(toCtl).tags) IN
       /\ nodePluginData' = res.node
       /\ notified' = res.updated
  /\ Consume
  /\ UNCHANGED <<rootPluginData, selection, toView>>

OnRenameTag ==
  /\ Receive("rename-tag")
  /\ CanPost(1)
  /\ LET res == renameTagEverywhere(rootPluginData, nodePluginData,
                                    Head(toCtl).from, Head(toCtl).to) IN
       /\ rootPluginData' = res.root
       /\ nodePluginData' = res.node
       /\ notified' = res.count
  /\ toView' = Append(toView, RegistryMessage(rootPluginData'))
  /\ Consume
  /\ UNCHANGED selection

OnMergeTags ==
  /\ Receive("merge-tags")
  /\ CanPost(1)
  /\ LET res == mergeTags(rootPluginData, nodePluginData,
                          Head(toCtl).into, Head(toCtl).fromList) IN
       /\ rootPluginData' = res.root
       /\ nodePluginData' = res.node
       /\ notified' = res.count
  /\ toView' = Append(toView, RegistryMessage(rootPluginData'))
  /\ Consume
  /\ UNCHANGED selection

\* figma.on("selectionchange") of the MVP.
SelectionTagsMessage(sel) ==
  [type |-> "selection-tags",
   data |-> [i \in 1..Len(sel) |->
               [id |-> sel[i], tags |-> getNodeTagsMvp(nodePluginData[sel[i]])]]]

SelectionChangeMvp ==
  /\ events < MaxEvents
  /\ CanPost(1)
  /\ \E ids \in SUBSET canvas :
       /\ InPageOrder(ids) # selection
       /\ selection' = InPageOrder(ids)
       /\ toView' = Append(toView, SelectionTagsMessage(InPageOrder(ids)))
  /\ events' = events + 1
  /\ UNCHANGED auxVars
  /\ UNCHANGED <<rootPluginData, nodePluginData, canvas, toCtl, viewVars,
                 mounted, registry, notified, handled>>

\* case "filter-by-tag": the found nodes become the selection, which fires
\* selectionchange when it differs; with none found only figma.notify runs.
OnFilterByTag ==
  /\ Receive("filter-by-tag")
  /\ LET found == findByTag(nodePluginData, Head(toCtl).tag) IN
       IF Len(found) # 0
       THEN /\ selection' = found
            /\ IF found # selection
               THEN /\ CanPost(1)
                    /\ toView' = Append(toView, SelectionTagsMessage(found))
               ELSE toView' = toView
       ELSE UNCHANGED <<selection, toView>>
  /\ Consume
  /\ UNCHANGED <<rootPluginData, nodePluginData, notified>>

\* The cases of the switch.
MvpMessageTypes ==
  {"create-tag", "delete-tag", "assign-tags-to-selection",
   "remove-tags-from-selection", "rename-tag", "merge-tags", "filter-by-tag",
   "export-csv"}

\* default: console.warn, nothing else.
OnUnknownMessage ==
  /\ toCtl # <<>>
  /\ Head(toCtl).type \notin MvpMessageTypes
  /\ Consume
  /\ UNCHANGED <<hostVars, toView, notified>>

(* ============================== MVP: ui.ts ============================== *)

\* parent.postMessage({ pluginMessage: msg }, "*")
PostIntent(msg) ==
  /\ events < MaxEvents
  /\ Len(toCtl) < MaxQueue
  /\ toCtl' = Append(toCtl, msg)
  /\ events' = events + 1
  /\ UNCHANGED auxVars
  /\ UNCHANGED <<hostVars, toView, mounted, viewVars, registry, notified, handled>>

\* #addTag: the color input always has a value, the emoji input may be empty.
UiMetas == {Meta("c1", ""), Meta("c2", "e1")}

UiCreateTag(name, meta) ==
  PostIntent([type |-> "create-tag", meta |-> meta, tag |-> name])

\* The Delete and Rename buttons exist for the tags of the cached registry.
UiDeleteTag(t) ==
  /\ t \in DOMAIN registry
  /\ PostIntent([type |-> "delete-tag", tag |-> t])

UiRenameTag(t, to) ==
  /\ t \in DOMAIN registry
  /\ to # t
  /\ PostIntent([from |-> t, to |-> to, type |-> "rename-tag"])

\* The Find button of a listed tag.
UiFilterByTag(t) ==
  /\ t \in DOMAIN registry
  /\ PostIntent([type |-> "filter-by-tag", tag |-> t])

UiAssignTags(tags) ==
  PostIntent([type |-> "assign-tags-to-selection", tags |-> tags])

UiRemoveTags(tags) ==
  PostIntent([type |-> "remove-tags-from-selection", tags |-> tags])

UiMergeTags(into, fromList) ==
  PostIntent([type |-> "merge-tags", fromList |-> fromList, into |-> into])

\* ui.ts onmessage
UiOnMessage ==
  /\ toView # <<>>
  /\ LET msg == Head(toView) IN
       registry' = CASE msg.type = "bootstrap" -> msg.data.registry
                     [] msg.type = "registry" -> msg.data
                     [] OTHER -> registry
  /\ toView' = Tail(toView)
  /\ UNCHANGED <<hostVars, toCtl, mounted, viewVars, notified, handled, events, auxVars>>

\* figma.on("run"): the UI is shown and the bootstrap message posted.
InitMVP ==
  /\ InitHost
  /\ toCtl = <<>>
  /\ toView = <<[type |-> "bootstrap",
                 data |-> [registry |-> getRegistry(rootPluginData)]]>>
  /\ InitView
  /\ registry = EmptyRegistry
  /\ notified = -1
  /\ handled = NoMessage
  /\ events = 0
  /\ InitAux

NextMVP ==
  \/ UiOnMessage
  \/ \E t \in TagNames, m \in UiMetas : UiCreateTag(t, m)
  \/ \E t \in TagNames : UiDeleteTag(t)
  \/ \E t \in TagNames, u \in TagNames : UiRenameTag(t, u)
  \/ \E tags \in InputTagLists : UiAssignTags(tags)
  \/ \E tags \in InputTagLists : UiRemoveTags(tags)
  \/ \E into \in TagNames, fromList \in InputTagLists : UiMergeTags(into, fromList)
  \/ OnCreateTag
  \/ OnDeleteTag
  \/ OnAssignTags
  \/ OnRemoveTags
  \/ OnRenameTag
  \/ OnMergeTags
  \/ \E t \in TagNames : UiFilterByTag(t)
  \/ OnFilterByTag
  \/ SelectionChangeMvp

SpecMVP == InitMVP /\ [][NextMVP]_vars

(* ================= MVP: the Controller on any message =================== *)

\* figma.ui.onmessage runs on whatever object is posted to the sandbox; these
\* are messages ui.ts never builds: a rename onto the same name, a create-tag
\* and a delete-tag without the tag field, and a type the switch does not know.
DirectMessages ==
  { [from |-> "a", to |-> "a", type |-> "rename-tag"],
    [type |-> "create-tag", meta |-> Meta("c1", "")],
    [type |-> "delete-tag"],
    [type |-> "ping"] }

DirectMessage == \E msg \in DirectMessages : PostIntent(msg)

NextMVPDirect ==
  \/ NextMVP
  \/ DirectMessage
  \/ OnUnknownMessage

SpecMVPDirect == InitMVP /\ [][NextMVPDirect]_vars

(* ===================== web application: FigJamSimulator ================= *)

\* newTags[node.tags.indexOf(oldTag)] = newTag
ReplaceFirst(s, old, new) ==
  LET k == CHOOSE i \in 1..Len(s) : s[i] = old /\ \A j \in 1..(i - 1) : s[j] # old
  IN [s EXCEPT ![k] = new]

\* TagStyleEditor.handleSave passes color and emoji, both strings.
EditorMetas == {Meta("c1", ""), Meta("c2", "e1")}

\* The props of the simulator are the host component's state: the callbacks
\* onNodesChange, onTagRegistryChange and onSelectedNodeIdsChange store their
\* argument.
SimFrame ==
  /\ events < MaxEvents
  /\ events' = events + 1
  /\ UNCHANGED auxVars
  /\ UNCHANGED <<hostVars, toCtl, toView, mounted, isConnected, registry,
                 notified, handled>>

\* The demo nodes, untagged.
handleAddDemoNodes ==
  /\ nodes' = [id \in NodeIds |-> IF id \in DOMAIN nodes THEN nodes[id] ELSE <<>>]
  /\ nodes' # nodes
  /\ SimFrame
  /\ UNCHANGED <<tagRegistry, selectedNodeIds>>

handleToggleSelection(nodeId) ==
  /\ nodeId \in DOMAIN nodes
  /\ selectedNodeIds' = <<nodeId>>
  /\ selectedNodeIds' # selectedNodeIds
  /\ SimFrame
  /\ UNCHANGED <<tagRegistry, nodes>>

handleSelectAll ==
  /\ selectedNodeIds' = InPageOrder(DOMAIN nodes)
  /\ selectedNodeIds' # selectedNodeIds
  /\ SimFrame
  /\ UNCHANGED <<tagRegistry, nodes>>

\* The tag chips the simulator renders: the tags on the nodes.
OnSomeNode(tag) == \E id \in DOMAIN nodes : Includes(nodes[id], tag)

handleUpdateTag(oldTag, newTag, meta) ==
  /\ OnSomeNode(oldTag)
  /\ IF oldTag # newTag
     THEN /\ tagRegistry' = RegSet(RegDelete(tagRegistry, oldTag), newTag, meta)
          /\ nodes' = [id \in DOMAIN nodes |->
                         IF Includes(nodes[id], oldTag)
                         THEN ReplaceFirst(nodes[id], oldTag, newTag)
                         ELSE nodes[id]]
     ELSE /\ tagRegistry' = RegSet(tagRegistry, newTag, meta)
          /\ nodes' = nodes
  /\ SimFrame
  /\ UNCHANGED selectedNodeIds

handleDeleteTag(tag) ==
  /\ OnSomeNode(tag)
  /\ tagRegistry' = RegDelete(tagRegistry, tag)
  /\ nodes' = [id \in DOMAIN nodes |->
                 IF Includes(nodes[id], tag) THEN Without(nodes[id], <<tag>>)
                 ELSE nodes[id]]
  /\ SimFrame
  /\ UNCHANGED selectedNodeIds

\* SelectionTagger mounted beside the simulator, over the same props.
SimBulkTagOperation(mode, tags) ==
  /\ Len(selectedNodeIds) # 0
  /\ Len(tags) # 0
  /\ nodes' = BulkNewNodes(mode, tags)
  /\ SimFrame
  /\ UNCHANGED <<tagRegistry, selectedNodeIds>>

\* The node registries the application starts from.
InitSimNodes ==
  { EmptyNodes,
    [id \in NodeIds |-> IF id = "n1" THEN <<"a", "b">> ELSE <<"a">>],
    [id \in NodeIds |-> IF id = "n1" THEN <<"b">> ELSE <<>>] }

InitSim ==
  /\ rootPluginData = NoData
  /\ nodePluginData = [n \in NodeIds |-> NoData]
  /\ canvas = NodeIds
  /\ selection = <<>>
  /\ toCtl = <<>>
  /\ toView = <<>>
  /\ mounted = TRUE
  /\ isConnected = FALSE
  /\ tagRegistry \in InitRegistries
  /\ nodes \in InitSimNodes
  /\ selectedNodeIds = <<>>
  /\ registry = EmptyRegistry
  /\ notified = -1
  /\ handled = NoMessage
  /\ events = 0
  /\ InitAux

NextSim ==
  \/ handleAddDemoNodes
  \/ \E id \in NodeIds : handleToggleSelection(id)
  \/ handleSelectAll
  \/ \E old \in TagNames, new \in TagNames, m \in EditorMetas :
       handleUpdateTag(old, new, m)
  \/ \E t \in TagNames : handleDeleteTag(t)
  \/ \E mode \in {"add", "remove"}, tags \in InputTagLists :
       SimBulkTagOperation(mode, tags)

SpecSim == InitSim /\ [][NextSim]_vars

(* ============================== CSV export ============================== *)

\* A text is a sequence of characters; a run of characters that are neither a
\* double quote, a comma nor a bar is written as one element.
DQ == "\""

\* name.replaceAll('"', '""')
replaceAllQuotes(text) ==
  LET F[i \in 0..Len(text)] ==
        IF i = 0 THEN <<>>
        ELSE IF text[i] = DQ THEN F[i - 1] \o <<DQ, DQ>>
             ELSE Append(F[i - 1], text[i])
  IN F[Len(text)]

\* Array.prototype.join of texts.
Join(texts, sep) ==
  LET F[i \in 0..Len(texts)] ==
        IF i = 0 THEN <<>>
        ELSE IF i = 1 THEN texts[1]
             ELSE F[i - 1] \o <<sep>> \o texts[i]
  IN F[Len(texts)]

\* The template `"${text}"`.
Quoted(text) == <<DQ>> \o text \o <<DQ>>

NodeType == "STICKY"

\* PluginStorageManager.exportToCSV(nodes), one line per element.
exportToCSV ==
  LET ids == InPageOrder(DOMAIN nodes) IN
  << <<"nodeId", ",", "nodeName", ",", "nodeType", ",", "tags">> >> \o
  [i \in 1..Len(ids) |->
     Quoted(<<ids[i]>>) \o <<",">> \o
     Quoted(replaceAllQuotes(nodeNames[ids[i]])) \o <<",">> \o
     Quoted(<<NodeType>>) \o <<",">> \o
     Quoted(Join(nodes[ids[i]], "|"))]

\* The MVP's exportCSV(): the tagged nodes of the page.
exportCSV ==
  LET ids == SelectSeq(InPageOrder(canvas),
               LAMBDA n : Len(getNodeTagsMvp(nodePluginData[n])) # 0) IN
  << <<"nodeId", ",", "nodeName", ",", "tags">> >> \o
  [i \in 1..Len(ids) |->
     <<ids[i]>> \o <<",">> \o
     Quoted(replaceAllQuotes(nodeNames[ids[i]])) \o <<",">> \o
     Quoted(Join(getNodeTagsMvp(nodePluginData[ids[i]]), "|"))]

\* PluginFooter's onExportCSV: the CSV of the View's index is downloaded.
onExportCSV ==
  /\ mounted
  /\ csv' = exportToCSV
  /\ UNCHANGED <<hostVars, toCtl, toView, mounted, viewVars, registry,
                 notified, handled, events, nodeNames, messageCallbacks>>

\* ui.ts: the export button posts export-csv.
UiExportCsv ==
  /\ Len(toCtl) < MaxQueue
  /\ toCtl' = Append(toCtl, [type |-> "export-csv"])
  /\ UNCHANGED <<hostVars, toView, mounted, viewVars, registry, notified,
                 handled, events, auxVars>>

\* case "export-csv": the CSV is written to the clipboard.
OnExportCsv ==
  /\ Receive("export-csv")
  /\ csv' = exportCSV
  /\ toCtl' = Tail(toCtl)
  /\ UNCHANGED <<hostVars, toView, mounted, viewVars, registry, notified,
                 handled, events, nodeNames, messageCallbacks>>

\* Names and tags as a user types them: plain, with a comma, with double quotes.
CsvNames == {<<"N">>, <<"Say ", DQ, "hi", DQ>>, <<"a", ",", "b">>}

CsvTagLists ==
  {<<>>, << <<"a">> >>, << <<"a">>, <<"b">> >>, << <<"x", DQ, "y">> >>}

\* A document with named, tagged nodes; the View's index mirrors it.
InitCsv ==
  /\ rootPluginData = NoData
  /\ canvas = NodeIds
  /\ selection = <<>>
  /\ \E f \in [NodeIds -> CsvTagLists] :
       /\ nodePluginData =
            [n \in NodeIds |-> IF f[n] = <<>> THEN NoData ELSE JSONstringify(f[n])]
       /\ nodes = [n \in {m \in NodeIds : f[m] # <<>>} |-> f[n]]
  /\ nodeNames \in [NodeIds -> CsvNames]
  /\ csv = <<>>
  /\ messageCallbacks = AppCallbacks
  /\ toCtl = <<>>
  /\ toView = <<>>
  /\ mounted = TRUE
  /\ tagRegistry = EmptyRegistry
  /\ selectedNodeIds = <<>>
  /\ isConnected = TRUE
  /\ registry = EmptyRegistry
  /\ notified = -1
  /\ handled = NoMessage
  /\ events = 0

NextCsv ==
  \/ onExportCSV
  \/ UiExportCsv
  \/ OnExportCsv

SpecCsv == InitCsv /\ [][NextCsv]_vars

(* ========================= claims: plugin variant ======================= *)

\* C1: after any tag mutation every object's stored tag list, in the
\* Controller's per-object store and in the View's index, is sorted ascending
\* and has no duplicates.
C1_TagListsNormalized ==
  /\ \A n \in NodeIds : IsNormalized(getNodeTags(n))
  /\ \A id \in DOMAIN nodes : IsNormalized(nodes[id])

Quiescent == toCtl = <<>> /\ toView = <<>>

\* C2: once every message in both directions has been delivered and handled,
\* the View's cached registry equals the durable registry and every cached
\* object's tag list equals that object's durable tag list.
C2_CacheEqualsDurableWhenQuiet ==
  (isConnected /\ Quiescent) =>
    /\ tagRegistry = getTagRegistry
    /\ \A id \in DOMAIN nodes : nodes[id] = getNodeTags(id)

SnapshotTypes ==
  {"initial-data", "tag-registry", "tag-registry-updated", "node-updated"}

\* C3: the View's cached registry and index change only in a step that handles
\* an inbound Controller snapshot.
C3_CacheChangesOnlyOnSnapshot ==
  [][(tagRegistry' # tagRegistry \/ nodes' # nodes) =>
       /\ Deliver(SnapshotTypes)
       /\ toView' = Tail(toView)]_vars

\* C4: an entry of the durable registry is removed or has its metadata changed
\* only by a create, delete, rename or merge operation that names that tag.
C4_DurableEntryChangesOnlyWhenNamed ==
  [][\A t \in DOMAIN getTagRegistry :
       (t \notin DOMAIN getTagRegistry' \/ getTagRegistry'[t] # getTagRegistry[t]) =>
         /\ Receive("set-tag-registry")
         /\ t \in Head(toCtl).intent.tags]_vars

\* The Controller handles the registry a View operation `op` on `tags` computed.
Arrives(op, tags) ==
  /\ Receive("set-tag-registry")
  /\ Head(toCtl).intent = [tags |-> tags, op |-> op]
  /\ handleSetTagRegistry

\* C6: after deleteTag(name) the registry has no entry for name and no object's
\* tag set, in the View's index or in the Controller's store, contains name.
C6_DeleteTagCascades ==
  [][\A t \in TagNames :
       /\ CompactDeleteTag(t) =>
            /\ t \notin DOMAIN tagRegistry'
            /\ \A id \in DOMAIN nodes' : ~Includes(nodes'[id], t)
       /\ Arrives("delete", {t}) =>
            /\ t \notin DOMAIN getTagRegistry'
            /\ \A n \in NodeIds : ~Includes(getNodeTags(n)', t)]_vars

\* C10: after renameTag(from, to) with from # to no object's tag set contains
\* from, every object that held from holds to, and the others are unchanged.
C10_RenamePropagates ==
  [][\A from \in TagNames : \A to \in TagNames \ {from} :
       CompactRenameTag(from, to) =>
         \A id \in DOMAIN nodes :
           /\ id \in DOMAIN nodes'
           /\ ~Includes(nodes'[id], from)
           /\ Includes(nodes[id], from) => Includes(nodes'[id], to)
           /\ ~Includes(nodes[id], from) => nodes'[id] = nodes[id]]_vars

(* ============================ claims: MVP =============================== *)

MutationTypes ==
  {"create-tag", "delete-tag", "rename-tag", "merge-tags",
   "assign-tags-to-selection", "remove-tags-from-selection"}

\* A step in which the Controller handles a message of one of `types`.
Handles(types) ==
  /\ toCtl # <<>>
  /\ Head(toCtl).type \in types
  /\ toCtl' = Tail(toCtl)

\* C5: for every mutation intent the Controller handles it posts exactly one
\* state-refresh message (a registry or an updated-object snapshot).
C5_OneRefreshPerMutation ==
  [][Handles(MutationTypes) =>
       /\ Len(toView') = Len(toView) + 1
       /\ SubSeq(toView', 1, Len(toView)) = toView
       /\ toView'[Len(toView')].type \in {"registry", "node-updated"}]_vars

\* C7: applying deleteTag(t) twice yields the same registry and the same
\* object tag sets as applying it once, for any t; and once delete-tag was
\* handled, applying it again changes nothing.
C7_DeleteTagIdempotent ==
  /\ \A t \in TagNames :
       LET once == deleteTag(rootPluginData, nodePluginData, t)
       IN deleteTag(once.root, once.node, t) = once
  /\ handled.type = "delete-tag" =>
       deleteTag(rootPluginData, nodePluginData, handled.tag) =
         [node |-> nodePluginData, root |-> rootPluginData]

\* C7's case: a delete-tag for a tag the UI still lists was handled and the
\* same delete-tag is the next message.
C7_Witness ==
  /\ handled.type = "delete-tag"
  /\ handled.tag \in DOMAIN registry
  /\ handled.tag \notin DOMAIN getRegistry(rootPluginData)
  /\ toCtl # <<>>
  /\ Head(toCtl) = handled

\* C8: createTag with a name already in the registry leaves the registry
\* unchanged; with a new name it inserts exactly that entry with the given
\* metadata.
C8_CreateExistingLeavesRegistry ==
  [][Handles({"create-tag"}) =>
       LET msg == Head(toCtl)
           reg == getRegistry(rootPluginData)
           regAfter == getRegistry(rootPluginData')
       IN IF msg.tag \in DOMAIN reg
          THEN regAfter = reg
          ELSE regAfter = RegSet(reg, msg.tag, Spread(EmptyMeta, msg.meta))]_vars

(* ========================= claims: web application ====================== *)

\* C9: renameTag(from, to) applied to an object whose tag set contains both
\* from and to yields a tag set with to exactly once and without from.
C9_RenameOntoHeldTag ==
  [][\A from \in TagNames : \A to \in TagNames \ {from} :
       \A m \in EditorMetas :
         handleUpdateTag(from, to, m) =>
           \A id \in DOMAIN nodes :
             (Includes(nodes[id], from) /\ Includes(nodes[id], to)) =>
               /\ Count(nodes'[id], to) = 1
               /\ ~Includes(nodes'[id], from)]_vars

(* ================== claims: MVP, rename and merge ======================= *)

\* C11: renameTag(from, to) with from = to is a no-op: the registry, with the
\* entry and metadata of that tag, and every object's tag set are unchanged,
\* also when the rename-tag message reaches the Controller directly.
C11_RenameToSelfIsNoOp ==
  [][(Handles({"rename-tag"}) /\ Head(toCtl).from = Head(toCtl).to) =>
       /\ getRegistry(rootPluginData') = getRegistry(rootPluginData)
       /\ nodePluginData' = nodePluginData]_vars

\* C12: renameTag(from, to) with from in the registry and from # to: afterwards
\* from has no entry and to's metadata is exactly from's metadata before the
\* rename, whether or not to had an entry.
C12_RenameCarriesMetadata ==
  [][Handles({"rename-tag"}) =>
       LET old == Head(toCtl).from
           new == Head(toCtl).to
           before == getRegistry(rootPluginData)
           after == getRegistry(rootPluginData')
       IN (old \in DOMAIN before /\ old # new) =>
            /\ old \notin DOMAIN after
            /\ new \in DOMAIN after
            /\ after[new] = before[old]]_vars

\* A metadata field that has a value.
IsSet(v) == v # Undefined /\ v # ""

\* The tags of srcList, in order and without dest, whose entry has field k set.
SourcesWith(before, dest, srcList, k) ==
  SelectSeq(srcList, LAMBDA f :
    f # dest /\ f \in DOMAIN before /\ IsSet(before[f][k]))

\* C13: after mergeTags(into, fromList), into not being one of fromList, each
\* metadata field of into equals its value before the merge where into had
\* one, and otherwise the first non-empty value among the fromList tags in
\* order.
C13_MergeKeepsIntoMetadata ==
  [][(Handles({"merge-tags"}) /\ ~Includes(Head(toCtl).fromList, Head(toCtl).into)) =>
       LET dest == Head(toCtl).into
           srcList == Head(toCtl).fromList
           before == getRegistry(rootPluginData)
           after == getRegistry(rootPluginData')
       IN \A k \in {"color", "emoji"} :
            LET src == SourcesWith(before, dest, srcList, k)
                had == dest \in DOMAIN before /\ IsSet(before[dest][k])
            IN /\ had =>
                    (dest \in DOMAIN after /\ after[dest][k] = before[dest][k])
               /\ (~had /\ src # <<>>) =>
                    (dest \in DOMAIN after /\ after[dest][k] = before[Head(src)][k])]_vars

\* C14: after mergeTags(into, fromList) no fromList tag other than into has an
\* entry; into's entry is kept when into is itself in fromList; and when no
\* fromList tag other than into has an entry the registry is unchanged.
C14_MergeRemovesSourcesOnly ==
  [][Handles({"merge-tags"}) =>
       LET dest == Head(toCtl).into
           srcList == Head(toCtl).fromList
           before == getRegistry(rootPluginData)
           after == getRegistry(rootPluginData')
           others == {srcList[i] : i \in 1..Len(srcList)} \ {dest}
       IN /\ \A f \in others : f \notin DOMAIN after
          /\ dest \in DOMAIN before => dest \in DOMAIN after
          /\ (others \cap DOMAIN before = {}) => after = before]_vars

\* The tags of a sequence, as a set.
TagSet(s) == {s[i] : i \in 1..Len(s)}

\* C15: after mergeTags(into, fromList) every object that held a tag of
\* fromList holds into exactly once and no other fromList tag, and keeps its
\* remaining tags; the objects that held none are unchanged; the count is the
\* number of objects that held a tag of fromList.
C15_MergeRewritesObjects ==
  [][Handles({"merge-tags"}) =>
       LET dest == Head(toCtl).into
           srcs == TagSet(Head(toCtl).fromList)
           holders == {n \in NodeIds :
                         TagSet(getNodeTagsMvp(nodePluginData[n])) \cap srcs # {}}
       IN /\ \A n \in holders :
               LET tagsBefore == getNodeTagsMvp(nodePluginData[n])
                   tagsAfter == getNodeTagsMvp(nodePluginData'[n])
               IN /\ Count(tagsAfter, dest) = 1
                  /\ TagSet(tagsAfter) =
                       (TagSet(tagsBefore) \ srcs) \cup {dest}
                  /\ \A t \in TagSet(tagsAfter) : Count(tagsAfter, t) = 1
          /\ \A n \in NodeIds \ holders : nodePluginData'[n] = nodePluginData[n]
          /\ notified' = Cardinality(holders)]_vars

\* C15's case: the merge of b and a into c was handled on the objects tagged
\* [a, b] and [a]; both hold c alone and the count was 2.
C15_Witness ==
  /\ handled.type = "merge-tags"
  /\ handled.into = "c"
  /\ handled.fromList = <<"b", "a">>
  /\ notified = 2
  /\ \A n \in NodeIds : getNodeTagsMvp(nodePluginData[n]) = <<"c">>

(* ==================== claims: assign, remove, find ====================== *)

\* C16: assignTags(objectIds, tags): every listed object the Index has ends
\* with its old tag set united with tags; listed ids the Index lacks get no
\* entry; unlisted objects are unchanged; the count is the number of listed
\* objects the Index has.
C16_AssignUnitesTags ==
  [][\A given \in InputTagLists :
       handleBulkTagOperation("add", given) =>
         LET listed == TagSet(selectedNodeIds) \cap DOMAIN nodes IN
         /\ DOMAIN nodes' = DOMAIN nodes
         /\ \A id \in listed :
              TagSet(nodes'[id]) = TagSet(nodes[id]) \cup TagSet(given)
         /\ \A id \in (DOMAIN nodes) \ listed : nodes'[id] = nodes[id]
         /\ notified' = Cardinality(listed)]_vars

\* C16's case: n1 (tagged b, in the Index) and n2 (untagged, not in the Index)
\* were selected and tag a was added: n1 holds b and a, n2 has no entry, and
\* the count was 1.
C16_Witness ==
  /\ selectedNodeIds = <<"n1", "n2">>
  /\ DOMAIN nodes = {"n1"}
  /\ TagSet(nodes["n1"]) = {"a", "b"}
  /\ notified = 1

\* C17: removeTags(objectIds, tags): every listed object ends with its old tag
\* set minus tags, tags it did not hold being ignored; unlisted objects are
\* unchanged; every listed object that held one of the tags is counted, and
\* no object is counted twice.
C17_RemoveSubtractsTags ==
  [][Handles({"remove-tags-from-selection"}) =>
       LET given == TagSet(Head(toCtl).tags)
           listed == TagSet(selection)
           holders == {n \in listed :
                         TagSet(getNodeTagsMvp(nodePluginData[n])) \cap given # {}}
       IN /\ \A n \in listed :
               /\ TagSet(getNodeTagsMvp(nodePluginData'[n])) =
                    TagSet(getNodeTagsMvp(nodePluginData[n])) \ given
               /\ IsNormalized(getNodeTagsMvp(nodePluginData'[n]))
          /\ \A n \in NodeIds \ listed : nodePluginData'[n] = nodePluginData[n]
          /\ Cardinality(holders) <= notified'
          /\ notified' <= Cardinality(listed)]_vars

\* C17's case: the object tagged [a, b] was selected and [b, c] removed: it
\* holds [a] and the count was 1.
C17_Witness ==
  /\ handled.type = "remove-tags-from-selection"
  /\ handled.tags = <<"b", "c">>
  /\ selection = <<"n1">>
  /\ getNodeTagsMvp(nodePluginData["n1"]) = <<"a">>
  /\ notified = 1

\* C18: an operation whose target is already in the desired state (removing
\* from the listed objects tags none of them holds, deleting a tag that has no
\* entry and is on no object) changes no registry or object state and reports
\* an affected count of zero.
C18_NoOpReportsZero ==
  [][/\ (/\ Handles({"remove-tags-from-selection"})
         /\ \A n \in TagSet(selection) :
              TagSet(getNodeTagsMvp(nodePluginData[n])) \cap
                TagSet(Head(toCtl).tags) = {}) =>
          /\ \A n \in NodeIds : getNodeTagsMvp(nodePluginData'[n]) =
                                getNodeTagsMvp(nodePluginData[n])
          /\ getRegistry(rootPluginData') = getRegistry(rootPluginData)
          /\ notified' = 0
     /\ (/\ Handles({"delete-tag"})
         /\ Head(toCtl).tag \notin DOMAIN getRegistry(rootPluginData)
         /\ findByTag(nodePluginData, Head(toCtl).tag) = <<>>) =>
          /\ \A n \in NodeIds : getNodeTagsMvp(nodePluginData'[n]) =
                                getNodeTagsMvp(nodePluginData[n])
          /\ getRegistry(rootPluginData') = getRegistry(rootPluginData)]_vars

\* C19: handling find-by-tag for tag t sets the host selection to exactly the
\* objects of the page whose stored tag set contains t, in traversal order;
\* it posts no data response (only the selection change is announced) and
\* changes no registry entry and no object's tag set.
C19_FindSelectsHolders ==
  [][Handles({"filter-by-tag"}) =>
       /\ selection' = findByTag(nodePluginData, Head(toCtl).tag)
       /\ rootPluginData' = rootPluginData
       /\ nodePluginData' = nodePluginData
       /\ Len(toView') >= Len(toView)
       /\ SubSeq(toView', 1, Len(toView)) = toView
       /\ \A i \in (Len(toView) + 1)..Len(toView') :
            toView'[i].type = "selection-tags"]_vars

(* ================ claims: MVP, Controller on any message ================ *)

\* A message of a type the switch does not know, or a create-tag or
\* delete-tag without its tag.
Malformed(m) ==
  \/ m.type \notin MvpMessageTypes
  \/ m.type \in {"create-tag", "delete-tag"} /\ "tag" \notin DOMAIN m

\* C20: a message with an unrecognized type, or a mutation message missing a
\* required field, is dropped: the durable registry and every object's stored
\* tag list are unchanged and no snapshot is pushed to the View.
C20_MalformedIsDropped ==
  [][(toCtl # <<>> /\ Malformed(Head(toCtl)) /\ toCtl' = Tail(toCtl)) =>
       /\ getRegistry(rootPluginData') = getRegistry(rootPluginData)
       /\ \A n \in NodeIds : getNodeTagsMvp(nodePluginData'[n]) =
                             getNodeTagsMvp(nodePluginData[n])
       /\ toView' = toView]_vars

\* C21: a set-node-tags request for an id the Controller cannot find is
\* dropped: the stored registry and every stored tag list stay as they are, and
\* nothing is posted to the View.
C21_UnknownNodeIsNoOp ==
  [][(Receive("set-node-tags") /\ Head(toCtl).nodeId \notin canvas
        /\ toCtl' = Tail(toCtl))
     => /\ rootPluginData' = rootPluginData
        /\ nodePluginData' = nodePluginData
        /\ toView' = toView]_vars

\* A request for a removed node was consumed: the View's entry for it differs
\* from the stored list and nothing is in flight.
C21_Witness ==
  /\ toCtl = <<>>
  /\ toView = <<>>
  /\ \E id \in (DOMAIN nodes) \ canvas : nodes[id] # getNodeTags(id)

\* C22: an initial-data message carries the registry, the index of tagged
\* nodes and the selection as they are when it is posted, and the Controller
\* posts one per View connection: none is posted while another is in flight.
C22_OneBootstrapPerConnect ==
  [][(Len(toView') = Len(toView) + 1
        /\ toView'[Len(toView')].type = "initial-data")
     => /\ toView'[Len(toView')] = InitialDataMessage
        /\ \A i \in 1..Len(toView) : toView[i].type # "initial-data"]_vars

\* C23: every change of the host selection posts one selection-changed message
\* carrying the new selection; once the View is connected and no message
\* carrying a selection is in flight, its selectedNodeIds equal the host
\* selection; handling set-node-tags or set-tag-registry neither changes the
\* selection nor posts selection-changed.
C23_SelectionMirrored ==
  /\ []((isConnected
          /\ \A i \in 1..Len(toView) :
               toView[i].type \notin {"initial-data", "selection-changed"})
        => selectedNodeIds = selection)
  /\ [][/\ selection' # selection
            => toView' = Append(toView, [selection |-> selection',
                                         type |-> "selection-changed"])
        /\ ((Receive("set-node-tags") \/ Receive("set-tag-registry"))
              /\ toCtl' = Tail(toCtl))
            => /\ selection' = selection
               /\ Len(toView') > Len(toView)
                    => toView'[Len(toView')].type # "selection-changed"]_vars

\* A selection-changed message was delivered to a View that has not received
\* initial-data: its mirror holds the changed selection.
C23_Witness ==
  /\ mounted
  /\ ~isConnected
  /\ selectedNodeIds = selection
  /\ selection = <<"n2">>

\* C27: a registry snapshot posted to the View equals the stored registry as
\* it is once the step has run, and a node-updated message carries the node's
\* stored tag list: the durable write comes before the push.
C27_PushAfterDurableWrite ==
  [][Len(toView') = Len(toView) + 1
     => LET pushed == toView'[Len(toView')] IN
          /\ pushed.type \in {"tag-registry", "tag-registry-updated"}
               => pushed.registry = getTagRegistry'
          /\ pushed.type = "registry"
               => pushed.data = getRegistry(rootPluginData')
          /\ pushed.type = "node-updated"
               => pushed.node.tags =
                    getNodeTagsMvp(nodePluginData'[pushed.node.id])]_vars

\* A snapshot of a non-empty registry is in flight and equals the stored one.
C27_Witness ==
  /\ toView # <<>>
  /\ Head(toView).type = "tag-registry-updated"
  /\ Head(toView).registry = getTagRegistry
  /\ DOMAIN getTagRegistry # {}

\* C28: when the user of a connected View adds tags to a selection, then for
\* every selected node that is on the canvas either its stored list already
\* holds the tags or a set-node-tags request carrying them is posted for it,
\* so that the Controller comes to store them; also for a node the View's
\* index lacks.
C28_AssignReachesController ==
  [][\A given \in InputTagLists :
       (isConnected /\ handleBulkTagOperation("add", given)) =>
         \A id \in TagSet(selectedNodeIds) \cap canvas :
           \/ TagSet(given) \subseteq TagSet(getNodeTags(id))
           \/ \E i \in 1..Len(toCtl') :
                /\ toCtl'[i].type = "set-node-tags"
                /\ toCtl'[i].nodeId = id
                /\ TagSet(given) \subseteq TagSet(toCtl'[i].tags)]_vars

\* C29: a View that has mounted and asked for its initial data is eventually
\* connected; the initial-data message it handles was built from the
\* Controller's registry, index and selection at posting time, and handling
\* it makes the View hold exactly the message's registry, index and selection.
\* A message posted at start-up, before the listener exists, does not prevent
\* this.
C29_ViewConnects ==
  /\ mounted ~> isConnected
  /\ [][/\ (Len(toView') = Len(toView) + 1
             /\ toView'[Len(toView')].type = "initial-data")
            => toView'[Len(toView')] = InitialDataMessage
        /\ (Deliver({"initial-data"}) /\ toView' = Tail(toView))
            => /\ isConnected'
               /\ tagRegistry' = Head(toView).tagRegistry
               /\ nodes' = Head(toView).nodes
               /\ selectedNodeIds' = Head(toView).selection]_vars

\* The View is connected and, with nothing in flight, holds the Controller's
\* registry, index and selection.
C29_Witness ==
  /\ mounted
  /\ isConnected
  /\ toCtl = <<>>
  /\ toView = <<>>
  /\ DOMAIN tagRegistry # {}
  /\ tagRegistry = getTagRegistry
  /\ nodes = getAllTaggedNodes
  /\ selectedNodeIds = selection

\* C30: every tag-registry and tag-registry-updated message delivered to the
\* View reaches the handler PluginApp registered, so the View's cached registry
\* becomes the message's registry; also after getTagRegistry() was called.
C30_RegistryReachesAppHandler ==
  [][(Deliver({"tag-registry", "tag-registry-updated"}) /\ toView' = Tail(toView))
     => /\ messageCallbacks["tag-registry"] = "app"
        /\ tagRegistry' = Head(toView).registry]_vars

\* The CSV form of a field: wrapped in double quotes, every double quote of
\* the text doubled.
CsvField(text) == Quoted(replaceAllQuotes(text))

\* C26: every row of an export writes each free-text field (the name, the
\* tags joined by a bar, and in the four-column export the id and the type) as
\* the text wrapped in double quotes with every inner double quote doubled,
\* and has one field per column of its header.
C26_CsvFieldsQuoted ==
  csv # <<>> =>
    IF Len(csv[1]) = 7
    THEN LET ids == InPageOrder(DOMAIN nodes) IN
         /\ Len(csv) = 1 + Len(ids)
         /\ \A i \in 1..Len(ids) :
              csv[i + 1] =
                Join(<<CsvField(<<ids[i]>>), CsvField(nodeNames[ids[i]]),
                       CsvField(<<NodeType>>),
                       CsvField(Join(nodes[ids[i]], "|"))>>, ",")
    ELSE LET ids == SelectSeq(InPageOrder(canvas),
                      LAMBDA n : Len(getNodeTagsMvp(nodePluginData[n])) # 0) IN
         /\ Len(csv) = 1 + Len(ids)
         /\ \A i \in 1..Len(ids) :
              csv[i + 1] =
                Join(<< <<ids[i]>>, CsvField(nodeNames[ids[i]]),
                       CsvField(Join(getNodeTagsMvp(nodePluginData[ids[i]]), "|"))>>,
                     ",")

\* The registries the next write can store: the stored one, the View's cache,
\* and the stored one after one more created tag.
RegistriesToWrite ==
  {getRegistry(rootPluginData), registry} \cup
  {RegSet(getRegistry(rootPluginData), t, m) : t \in TagNames, m \in UiMetas}

\* The tag lists the next write can store: each node's stored list, and the
\* normalized union of it with typed tags.
TagListsToWrite ==
  {getNodeTagsMvp(nodePluginData[n]) : n \in NodeIds} \cup
  {Sort(Dedup(getNodeTagsMvp(nodePluginData[n]) \o typed)) :
     n \in NodeIds, typed \in InputTagLists}

C25_UnreadableBlobReadsEmpty ==
  [][(Receive("get-initial-data") /\ toCtl' = Tail(toCtl))
     => toView' = Append(toView,
          [selection |-> selection,
           tagRegistry |-> getRegistry(rootPluginData),
           nodes |-> [id \in {n \in canvas :
                               Len(getNodeTagsMvp(nodePluginData[n])) > 0} |->
                        getNodeTagsMvp(nodePluginData[id])],
           type |-> "initial-data"])]_vars

====
